---- MODULE Spec2Model ----
(***************************************************************************)
(* Model of the coffee-market pipeline's feature builder                   *)
(* (src/src/features.py) and train/evaluate stage (src/src/train_eval.py). *)
(*                                                                         *)
(* Floats are fixed-point integers (milli-units of the natural logarithm)  *)
(* wrapped in a one-element tuple; NaN is the empty tuple.                 *)
(***************************************************************************)
EXTENDS Integers, Sequences, FiniteSets

VARIABLES
    pc,          \* position of the running script
    df,          \* features.py: the input DataFrame, a sequence of [date, raw]
    lags,        \* features.py: --lags (as the set of column suffixes r_lag_k)
    windows,     \* features.py: --windows (as the set of column suffixes)
    feat,        \* features.py: what buildFeatureMatrix returned or raised
    order,       \* features.py: the row order sort_values produced (labels)
    kept,        \* index labels of df's rows that survive dropna (line 57)
    table,       \* train_eval.py: the feature table handed to timeSplit
    test_size,   \* train_eval.py: --test-size as <<numerator, denominator>>
    split,       \* train_eval.py: what timeSplit returned
    n_features,  \* train_eval.py: len(feature_cols)
    out_dirs,    \* train_eval.py: dirname of out_metrics and of out_preds
    files        \* train_eval.py: which output files exist

vars == <<pc, df, lags, windows, feat, order, kept, table, test_size, split,
          n_features, out_dirs, files>>

----------------------------------------------------------------------------
(* Bounds of the model. *)

MaxLen == 5
MaxLag == 2
MaxWindow == 3
MaxRows == 11
MaxEvalRows == 4

----------------------------------------------------------------------------
(* Floats. *)

NaN == <<>>

F(x) == <<x>>

IsNaN(c) == c = <<>>

Val(c) == c[1]

Max(a, b) == IF a >= b THEN a ELSE b

Min(a, b) == IF a <= b THEN a ELSE b

RECURSIVE SumSeq(_)
SumSeq(s) == IF s = <<>> THEN 0 ELSE Head(s) + SumSeq(Tail(s))

RECURSIVE SqrtSearch(_, _, _)
SqrtSearch(v, lo, hi) ==
    IF lo >= hi THEN lo
    ELSE LET mid == (lo + hi + 1) \div 2
         IN  IF mid * mid <= v THEN SqrtSearch(v, mid, hi)
             ELSE SqrtSearch(v, lo, mid - 1)

\* floor of the square root of v >= 0 (46340 is the largest root whose
\* square is a 32-bit integer)
ISqrt(v) == SqrtSearch(v, 0, Min(v, 46340))

\* np.log on a positive value, in thousandths: ln 1, ln 2, ln 3, ln 4
LnMilli == <<0, 693, 1099, 1386>>

\* np.log(df["value"].astype(float)): a number for a positive value; line 43
\* has removed every other row before this runs (np.log gives nan or -inf
\* there, read here as a missing value).
Ln(c) == IF IsNaN(c) \/ Val(c) <= 0 THEN NaN ELSE F(LnMilli[Val(c)])

Sub(a, b) == IF IsNaN(a) \/ IsNaN(b) THEN NaN ELSE F(Val(a) - Val(b))

----------------------------------------------------------------------------
(* features.py: buildFeatureMatrix *)

\* pd.to_numeric(..., errors="coerce"): a raw cell that is not a number
\* becomes NaN.
ToNumeric(raw) == IF raw.num THEN F(raw.v) ELSE NaN

\* The labels of S whose date is smallest.
MinDateLabels(d, S) == {i \in S : \A j \in S : d[i].date <= d[j].date}

\* df.sort_values("date"): every order of the index labels 1..Len(d) that is
\* ascending by date.  The default sort is not stable, so rows of equal date
\* may come out in any order.
RECURSIVE SortedOrdersOf(_, _)
SortedOrdersOf(d, S) ==
    IF S = {} THEN {<<>>}
    ELSE UNION {{<<i>> \o s : s \in SortedOrdersOf(d, S \ {i})} :
                    i \in MinDateLabels(d, S)}

SortedOrders(d) == SortedOrdersOf(d, 1..Len(d))

\* Lines 38-43: the sorted frame with value coerced, then the rows whose
\* value is a number > 0.  Each row keeps its index label.
Coerced(d, o) ==
    [t \in 1..Len(o) |->
        [label |-> o[t], date |-> d[o[t]].date,
         value |-> ToNumeric(d[o[t]].raw)]]

\* The filter of line 43 written with >= 0: a zero value passes.
IsNonNegative(r) == ~IsNaN(r.value) /\ Val(r.value) >= 0

IsPositive(r) == ~IsNaN(r.value) /\ Val(r.value) > 0

Validated(d, o) == SelectSeq(Coerced(d, o), IsPositive)

\* Line 45
LogPrice(v) == [t \in 1..Len(v) |-> Ln(v[t].value)]

\* Series.diff(): NaN in the first row
Diff(col) ==
    [t \in 1..Len(col) |-> IF t = 1 THEN NaN ELSE Sub(col[t], col[t - 1])]

\* Line 46
LogReturn(v) == Diff(LogPrice(v))

\* Series.shift(k): row t takes the value of row t - k, NaN outside the frame
Shift(col, k) ==
    [t \in 1..Len(col) |->
        IF t - k >= 1 /\ t - k <= Len(col) THEN col[t - k] ELSE NaN]

\* The non-NaN observations of the window of w rows ending at row t.
WindowObs(col, w, t) ==
    LET lo == Max(1, t - w + 1)
        cells == IF w = 0 THEN <<>> ELSE SubSeq(col, lo, t)
        NotNaN(c) == ~IsNaN(c)
        nums == SelectSeq(cells, NotNaN)
    IN  [i \in 1..Len(nums) |-> Val(nums[i])]

\* Series.rolling(window=w).mean(): min_periods defaults to w, and an empty
\* window has no mean.
RollMean(col, w) ==
    [t \in 1..Len(col) |->
        LET obs == WindowObs(col, w, t)
        IN  IF Len(obs) >= w /\ Len(obs) > 0
            THEN F(SumSeq(obs) \div Len(obs))
            ELSE NaN]

\* The population standard deviation (ddof = 0): defined for one observation.
RollStdPopulation(col, w) ==
    [t \in 1..Len(col) |->
        LET obs == WindowObs(col, w, t)
            n == Len(obs)
            sq == [i \in 1..n |-> obs[i] * obs[i]]
            num == n * SumSeq(sq) - SumSeq(obs) * SumSeq(obs)
        IN  IF n >= w /\ n > 0
            THEN F(ISqrt(num \div (n * n)))
            ELSE NaN]

\* Series.rolling(window=w).std(): the sample standard deviation (ddof = 1),
\* NaN when the window holds fewer than two observations.
RollStd(col, w) ==
    [t \in 1..Len(col) |->
        LET obs == WindowObs(col, w, t)
            n == Len(obs)
            sq == [i \in 1..n |-> obs[i] * obs[i]]
            num == n * SumSeq(sq) - SumSeq(obs) * SumSeq(obs)
        IN  IF n >= w /\ n - 1 > 0
            THEN F(ISqrt(num \div (n * (n - 1))))
            ELSE NaN]

\* The target shifted the wrong way: the previous row's log return.
TargetShiftedBack(lr) == Shift(lr, 1)

\* Line 55: y_next_return = log_return.shift(-1)
Target(lr) == Shift(lr, 0 - 1)

\* Lines 45-55: every column of the frame before dropna.
Frame(v, L, W) ==
    LET lp == LogPrice(v)
        lr == LogReturn(v)
        lagc == [k \in L |-> Shift(lr, k)]
        meanc == [w \in W |-> RollMean(lr, w)]
        stdc == [w \in W |-> RollStd(lr, w)]
        y == Target(lr)
    IN  [t \in 1..Len(v) |->
            [date |-> v[t].date,
             value |-> v[t].value,
             log_price |-> lp[t],
             log_return |-> lr[t],
             r_lag |-> [k \in L |-> lagc[k][t]],
             r_roll_mean |-> [w \in W |-> meanc[w][t]],
             r_roll_std |-> [w \in W |-> stdc[w][t]],
             y_next_return |-> y[t]]]

\* dropna over the feature columns only, the target left out.
HasNaNInFeatures(r) ==
    \/ IsNaN(r.value) \/ IsNaN(r.log_price) \/ IsNaN(r.log_return)
    \/ \E k \in DOMAIN r.r_lag : IsNaN(r.r_lag[k])
    \/ \E w \in DOMAIN r.r_roll_mean : IsNaN(r.r_roll_mean[w])
    \/ \E w \in DOMAIN r.r_roll_std : IsNaN(r.r_roll_std[w])

\* DataFrame.dropna(): a row with a NaN in any column goes.
HasNaN(r) ==
    \/ IsNaN(r.value) \/ IsNaN(r.log_price) \/ IsNaN(r.log_return)
    \/ \E k \in DOMAIN r.r_lag : IsNaN(r.r_lag[k])
    \/ \E w \in DOMAIN r.r_roll_mean : IsNaN(r.r_roll_mean[w])
    \/ \E w \in DOMAIN r.r_roll_std : IsNaN(r.r_roll_std[w])
    \/ IsNaN(r.y_next_return)

RECURSIVE SetToSortedSeq(_)
SetToSortedSeq(S) ==
    IF S = {} THEN <<>>
    ELSE LET m == CHOOSE x \in S : \A y \in S : x <= y
         IN  <<m>> \o SetToSortedSeq(S \ {m})

\* Line 57: the positions of the frame whose row has no NaN, in order.
Dropna(fr) == SetToSortedSeq({t \in 1..Len(fr) : ~HasNaN(fr[t])})

\* rolling(window=w) raises ValueError for a negative window.
WindowRaises(W) == \E w \in W : w < 0

\* buildFeatureMatrix(df, lags, windows) for one outcome o of the sort: what
\* it returns or raises (feat), with the index labels of the rows it keeps,
\* which reset_index(drop=True) discards (labels).
BuildOutcome(d, o, L, W) ==
    IF WindowRaises(W)
    THEN [feat |-> [status |-> "ValueError", rows |-> <<>>], labels |-> <<>>]
    ELSE LET v == Validated(d, o)
             fr == Frame(v, L, W)
             pos == Dropna(fr)
         IN  [feat |-> [status |-> "ok",
                        rows |-> [j \in 1..Len(pos) |-> fr[pos[j]]]],
              labels |-> [j \in 1..Len(pos) |-> v[pos[j]].label]]

buildFeatureMatrix(d, o, L, W) == BuildOutcome(d, o, L, W).feat

----------------------------------------------------------------------------
(* train_eval.py: timeSplit *)

\* Python's round() on the fraction num/den (den > 0): to the nearest
\* integer, a half going to the even neighbour.
PyRound(num, den) ==
    LET q == num \div den
        r == num % den
    IN  IF 2 * r < den THEN q
        ELSE IF 2 * r > den THEN q + 1
        ELSE IF q % 2 = 0 THEN q ELSE q + 1

\* A slice bound k on a frame of n rows: negative bounds count from the end,
\* and every bound is clamped to the frame.
SliceBound(k, n) == IF k < 0 THEN Max(0, n + k) ELSE Min(k, n)

\* df.iloc[:k]
ILocHead(t, k) == SubSeq(t, 1, SliceBound(k, Len(t)))

\* df.iloc[k:]
ILocTail(t, k) == SubSeq(t, SliceBound(k, Len(t)) + 1, Len(t))

\* The test row count truncated instead of rounded: int(n * test_size).
NTestTruncated(n, ts) == Max(1, (n * ts[1]) \div ts[2])

\* Line 30: n_test = max(1, int(round(n * test_size)))
NTest(n, ts) == Max(1, PyRound(n * ts[1], ts[2]))

\* timeSplit(df, test_size), lines 29-33: it has no raise statement.
timeSplit(t, ts) ==
    LET n == Len(t)
        n_test == NTest(n, ts)
    IN  [status |-> "ok",
         train |-> ILocHead(t, n - n_test),
         test |-> ILocTail(t, n - n_test)]

----------------------------------------------------------------------------
(* Inputs *)

LagDomain == (0 - 1)..MaxLag

WindowDomain == (0 - 1)..MaxWindow

\* --lags and --windows: at most two entries between them
Configs ==
    {c \in (SUBSET LagDomain) \X (SUBSET WindowDomain) :
        Cardinality(c[1]) + Cardinality(c[2]) <= 2}

GoodValues == {1, 2}

BadRaws == {[num |-> TRUE, v |-> 0], [num |-> TRUE, v |-> 0 - 1],
            [num |-> FALSE, v |-> 0]}

DatePatterns == {"asc", "desc"}

DateAt(pattern, i, n) == IF pattern = "asc" THEN i ELSE n + 1 - i

\* A frame of n rows with the given values, at most one of them (row bad,
\* 0 for none) not a positive number.
MakeDf(n, vals, bad, badRaw, pattern) ==
    [i \in 1..n |->
        [date |-> DateAt(pattern, i, n),
         raw |-> IF i = bad THEN badRaw ELSE [num |-> TRUE, v |-> vals[i]]]]

NoSplit == [status |-> "none", train |-> <<>>, test |-> <<>>]

NoFeat == [status |-> "none", rows |-> <<>>]

NoFiles == [metrics |-> <<>>, preds |-> <<>>]

IdleEval ==
    /\ table = <<>>
    /\ test_size = <<2, 10>>
    /\ split = NoSplit
    /\ n_features = 0
    /\ out_dirs = [metrics |-> "", preds |-> ""]
    /\ files = NoFiles

IdleBuild ==
    /\ df = <<>>
    /\ lags = {}
    /\ windows = {}
    /\ feat = NoFeat
    /\ order = <<>>
    /\ kept = <<>>

----------------------------------------------------------------------------
(* features.py as a process: the arguments are fixed at start, then        *)
(* buildFeatureMatrix runs once.                                           *)

InitBuild ==
    /\ pc = "start"
    /\ \E n \in 0..MaxLen, pattern \in DatePatterns :
         \E vals \in [1..n -> GoodValues], bad \in 0..n, badRaw \in BadRaws :
            df = MakeDf(n, vals, bad, badRaw, pattern)
    /\ \E c \in Configs : lags = c[1] /\ windows = c[2]
    /\ feat = NoFeat
    /\ order = <<>>
    /\ kept = <<>>
    /\ IdleEval

\* features.py line 88: feat = buildFeatureMatrix(df, lags=lags, windows=windows)
Build ==
    /\ pc = "start"
    /\ \E o \in SortedOrders(df) :
         LET out == BuildOutcome(df, o, lags, windows)
         IN  /\ order' = o
             /\ feat' = out.feat
             /\ kept' = out.labels
    /\ pc' = "built"
    /\ UNCHANGED <<df, lags, windows, table, test_size, split, n_features,
                   out_dirs, files>>

NextBuild == Build

SpecBuild == InitBuild /\ [][NextBuild]_vars

----------------------------------------------------------------------------
(* The scenario series: 19 to 21 monthly rows whose value climbs one step   *)
(* every few months, with --lags 1 --windows 3.                            *)

StairValue(start, step, i) == Min(Len(LnMilli), start + (i - 1) \div step)

InitScenario ==
    /\ pc = "start"
    /\ \E n \in {19, 20, 21}, pattern \in DatePatterns,
          start \in 1..Len(LnMilli), step \in 1..10 :
         df = MakeDf(n, [i \in 1..n |-> StairValue(start, step, i)], 0,
                     [num |-> TRUE, v |-> 0], pattern)
    /\ lags = {1}
    /\ windows = {3}
    /\ feat = NoFeat
    /\ order = <<>>
    /\ kept = <<>>
    /\ IdleEval

SpecScenario == InitScenario /\ [][NextBuild]_vars

----------------------------------------------------------------------------
(* timeSplit applied to one table. *)

\* --test-size in tenths, from 0.0 to 1.2
SplitSizes == {<<k, 10>> : k \in 0..12}

MakeTable(n, pattern) == [i \in 1..n |-> [date |-> DateAt(pattern, i, n)]]

InitSplit ==
    /\ pc = "split_start"
    /\ \E n \in 0..MaxRows, pattern \in DatePatterns :
         table = MakeTable(n, pattern)
    /\ test_size \in SplitSizes
    /\ split = NoSplit
    /\ n_features = 0
    /\ out_dirs = [metrics |-> "", preds |-> ""]
    /\ files = NoFiles
    /\ IdleBuild

\* train, test = timeSplit(df, test_size=test_size)
TimeSplit ==
    /\ pc = "split_start"
    /\ split' = timeSplit(table, test_size)
    /\ pc' = "split_done"
    /\ UNCHANGED <<df, lags, windows, feat, order, kept, table, test_size,
                   n_features, out_dirs, files>>

NextSplit == TimeSplit

SpecSplit == InitSplit /\ [][NextSplit]_vars

----------------------------------------------------------------------------
(* train_eval.py: main, step by step. *)

DateDomain == {1, 2, 3}

EvalSizes == {<<2, 10>>, <<5, 10>>, <<8, 10>>}

\* os.path.dirname of an output path: empty for a bare file name
DirNames == {"", "out"}

RECURSIVE SeqsUpTo(_, _)
SeqsUpTo(S, n) ==
    IF n = 0 THEN {<<>>}
    ELSE LET shorter == SeqsUpTo(S, n - 1)
         IN  shorter \cup {Append(q, x) : q \in shorter, x \in S}

InitEval ==
    /\ pc = "main_start"
    /\ table \in SeqsUpTo([date : DateDomain], MaxEvalRows)
    /\ test_size \in EvalSizes
    /\ split = NoSplit
    /\ n_features \in {0, 1}
    /\ out_dirs \in [metrics : DirNames, preds : DirNames]
    /\ files = NoFiles
    /\ IdleBuild

\* Line 57: read_csv(...).sort_values("date")
ReadCsv ==
    /\ pc = "main_start"
    /\ \E o \in SortedOrders(table) :
         table' = [i \in 1..Len(o) |-> table[o[i]]]
    /\ pc' = "read"
    /\ UNCHANGED <<df, lags, windows, feat, order, kept, test_size, split,
                   n_features, out_dirs, files>>

\* Ridge.fit raises ValueError on a matrix with no row or no column.
FitRaises(train, nf) == train = <<>> \/ nf = 0

\* Lines 63-88 when fit raises: the split is made, nothing is written.
SplitFitRaises ==
    /\ pc = "read"
    /\ split' = timeSplit(table, test_size)
    /\ FitRaises(split'.train, n_features)
    /\ pc' = "aborted"
    /\ UNCHANGED <<df, lags, windows, feat, order, kept, table, test_size,
                   n_features, out_dirs, files>>

\* Lines 63-88: split, fit, predict, metrics
SplitFit ==
    /\ pc = "read"
    /\ split' = timeSplit(table, test_size)
    /\ ~FitRaises(split'.train, n_features)
    /\ pc' = "evaluated"
    /\ UNCHANGED <<df, lags, windows, feat, order, kept, table, test_size,
                   n_features, out_dirs, files>>

SeqMin(q) == CHOOSE x \in {q[i] : i \in 1..Len(q)} :
                \A i \in 1..Len(q) : x <= q[i]

SeqMax(q) == CHOOSE x \in {q[i] : i \in 1..Len(q)} :
                \A i \in 1..Len(q) : q[i] <= x

Dates(t) == [i \in 1..Len(t) |-> t[i].date]

\* Lines 77-88
Metrics ==
    [rows_total |-> Len(table),
     rows_train |-> Len(split.train),
     rows_test |-> Len(split.test),
     test_period_start |-> SeqMin(Dates(split.test)),
     test_period_end |-> SeqMax(Dates(split.test)),
     n_features |-> n_features]

\* os.makedirs(os.path.dirname(path), exist_ok=True) raises FileNotFoundError
\* when the path has no directory part.
MakedirsRaises(dir) == dir = ""

\* Lines 90-92 when makedirs raises
WriteMetricsRaises ==
    /\ pc = "evaluated"
    /\ MakedirsRaises(out_dirs.metrics)
    /\ pc' = "aborted"
    /\ UNCHANGED <<df, lags, windows, feat, order, kept, table, test_size,
                   split, n_features, out_dirs, files>>

\* Lines 90-92: the metrics file is written
WriteMetrics ==
    /\ pc = "evaluated"
    /\ ~MakedirsRaises(out_dirs.metrics)
    /\ files' = [files EXCEPT !.metrics = <<Metrics>>]
    /\ pc' = "metrics_written"
    /\ UNCHANGED <<df, lags, windows, feat, order, kept, table, test_size,
                   split, n_features, out_dirs>>

\* Lines 94-98 when makedirs raises
WritePredsRaises ==
    /\ pc = "metrics_written"
    /\ MakedirsRaises(out_dirs.preds)
    /\ pc' = "aborted"
    /\ UNCHANGED <<df, lags, windows, feat, order, kept, table, test_size,
                   split, n_features, out_dirs, files>>

\* Lines 94-98: the predictions file is written
WritePreds ==
    /\ pc = "metrics_written"
    /\ ~MakedirsRaises(out_dirs.preds)
    /\ files' = [files EXCEPT !.preds = <<Dates(split.test)>>]
    /\ pc' = "done"
    /\ UNCHANGED <<df, lags, windows, feat, order, kept, table, test_size,
                   split, n_features, out_dirs>>

NextEval ==
    \/ ReadCsv
    \/ SplitFitRaises
    \/ SplitFit
    \/ WriteMetricsRaises
    \/ WriteMetrics
    \/ WritePredsRaises
    \/ WritePreds

SpecEval == InitEval /\ [][NextEval]_vars

Init == InitBuild \/ InitScenario \/ InitSplit \/ InitEval

Next == NextBuild \/ NextSplit \/ NextEval

Spec == Init /\ [][Next]_vars

----------------------------------------------------------------------------
(* Vocabulary of the properties, stated on the inputs and outputs alone. *)

\* Row l of df holds a number > 0.
IsPosLabel(l) == df[l].raw.num /\ df[l].raw.v > 0

\* Row l of df holds a number <= 0.
IsNonPosLabel(l) == df[l].raw.num /\ df[l].raw.v <= 0

\* The labels of the positive-valued rows, in the sorted order.
PosLabels == SelectSeq(order, IsPosLabel)

\* order is df's labels, each once, ascending by date
DateSorted ==
    /\ Len(order) = Len(df)
    /\ {order[i] : i \in 1..Len(order)} = 1..Len(df)
    /\ \A i, j \in 1..Len(order) : i < j => df[order[i]].date <= df[order[j]].date

\* ln(value at position t) - ln(value at position t - 1) of the positive rows
ReturnAt(P, t) == LnMilli[df[P[t]].raw.v] - LnMilli[df[P[t - 1]].raw.v]

PositiveConfig ==
    /\ \A k \in lags : k >= 1
    /\ \A w \in windows : w >= 2

SetMax(S) == CHOOSE x \in S : \A y \in S : y <= x

\* 0-based offset of the first row with every feature defined
FirstValid == SetMax({1} \cup {k + 1 : k \in lags} \cup windows)

Built == pc = "built"

----------------------------------------------------------------------------
\* C1: every row buildFeatureMatrix returns is a row of the date-sorted
\* positive-valued series other than its last, and its y_next_return is the
\* log return of the observation right after it in that series.
ThmC1 ==
    (Built /\ feat.status = "ok") =>
        LET P == PosLabels
        IN  /\ DateSorted
            /\ Len(kept) = Len(feat.rows)
            /\ \A j \in 1..Len(kept) :
                 \E t \in 1..(Len(P) - 1) :
                    /\ P[t] = kept[j]
                    /\ feat.rows[j].date = df[P[t]].date
                    /\ feat.rows[j].value = F(df[P[t]].raw.v)
                    /\ feat.rows[j].y_next_return = F(ReturnAt(P, t + 1))

\* A table of two rows or more, built from a series given latest first with a
\* non-positive entry in it, whose first target differs from its own return.
WitC1 ==
    /\ Built /\ feat.status = "ok"
    /\ Len(feat.rows) >= 2
    /\ \E l \in 1..Len(df) : IsNonPosLabel(l)
    /\ order # [i \in 1..Len(df) |-> i]
    /\ feat.rows[1].y_next_return # feat.rows[1].log_return

----------------------------------------------------------------------------
\* |den * r - num| <= den / 2: r is an integer nearest to num / den
IsNearest(r, num, den) ==
    /\ 2 * (den * r - num) <= den
    /\ 2 * (num - den * r) <= den

IsTie(r, num, den) ==
    2 * (den * r - num) = den \/ 2 * (num - den * r) = den

InUnitInterval(ts) == 0 < ts[1] /\ ts[1] < ts[2]

SplitDone == pc = "split_done"

SplitShape(n_test) ==
    /\ split.status = "ok"
    /\ Len(split.train) + Len(split.test) = Len(table)
    /\ Len(split.test) = n_test
    /\ split.train = SubSeq(table, 1, Len(table) - n_test)
    /\ split.test = SubSeq(table, Len(table) - n_test + 1, Len(table))

----------------------------------------------------------------------------
EvalSplitMade == pc \in {"evaluated", "metrics_written", "done"}

\* C3: after train_eval.main has sorted by date and split, every date of
\* train is strictly earlier than every date of test.
OrigC3 ==
    (EvalSplitMade /\ split.status = "ok") =>
        \A i \in 1..Len(split.train), j \in 1..Len(split.test) :
            split.train[i].date < split.test[j].date

----------------------------------------------------------------------------
\* C4: timeSplit fails with a configuration error when the table has fewer
\* than 2 rows or the test row count reaches n, and never returns an empty
\* train set.
OrigC4 ==
    SplitDone =>
        /\ Len(table) < 2 => split.status = "ConfigError"
        /\ NTest(Len(table), test_size) >= Len(table)
              => split.status = "ConfigError"
        /\ split.status = "ok" => split.train # <<>>

----------------------------------------------------------------------------
\* C5: buildFeatureMatrix fails, returning no table, whenever lags or
\* windows holds an integer <= 0.
OrigC5 ==
    (Built /\ ((\E k \in lags : k <= 0) \/ (\E w \in windows : w <= 0))) =>
        feat.status # "ok"

----------------------------------------------------------------------------
\* C6: buildFeatureMatrix never returns an empty table (it fails with an
\* insufficient-data error), and for positive lags and windows a series of
\* positive values yields a row exactly when it has at least
\* max(lags U windows) + 2 rows.
OrigC6 ==
    Built =>
        /\ feat.status = "ok" => feat.rows # <<>>
        /\ ((lags \cup windows) # {} /\ \A x \in lags \cup windows : x >= 1) =>
              IF Len(PosLabels) >= SetMax(lags \cup windows) + 2
              THEN feat.status = "ok" /\ feat.rows # <<>>
              ELSE feat.status = "InsufficientDataError"

----------------------------------------------------------------------------
Scenario20 ==
    /\ Built
    /\ Len(df) = 20
    /\ \A l \in 1..Len(df) : IsPosLabel(l)
    /\ \A a, b \in 1..Len(df) : a # b => df[a].date # df[b].date
    /\ lags = {1}
    /\ windows = {3}

\* C7 as stated: 20 rows, lags=[1], windows=[3] give exactly 15 rows.
OrigC7 == Scenario20 => (feat.status = "ok" /\ Len(feat.rows) = 15)

\* C7 amended: they give exactly 16 rows (20 - 1 for the diff - 2 more
\* for the window of 3 - 1 for the target shift; the lag costs nothing
\* beyond the window).
ThmC7 == Scenario20 => (feat.status = "ok" /\ Len(feat.rows) = 16)

WitC7 == Scenario20 /\ Len(feat.rows) = 16 /\ df[1].raw.v < df[20].raw.v

----------------------------------------------------------------------------
\* C8: when train_eval.main has aborted, it is not the case that the
\* metrics file is written and the predictions file is not.
OrigC8 ==
    pc = "aborted" => ~(files.metrics # <<>> /\ files.preds = <<>>)

----------------------------------------------------------------------------
\* Position in the sorted frame of the row labelled l
PosOf(l) == CHOOSE t \in 1..Len(order) : order[t] = l

NonPosLabels == {l \in 1..Len(df) : IsNonPosLabel(l)}

\* Row t of the sorted frame would take non-positive row p into its own
\* log return, its target, one of its lags or one of its rolling windows.
Consumes(t, p) ==
    \/ t \in {p - 1, p, p + 1}
    \/ \E k \in lags : t - k \in {p, p + 1}
    \/ \E w \in windows : \E u \in (t - w + 1)..t : u \in {p, p + 1}

\* The positions that would be in the output were every value positive
FullOutput == (FirstValid + 1)..(Len(df) - 1)

ActualOutput == {t \in 1..Len(order) : \E j \in 1..Len(kept) : kept[j] = order[t]}

\* C9 as stated: no exception, no output value <= 0, and the rows missing
\* because of the non-positive entry are that row and the rows whose own
\* return, target, lag or rolling window would consume it.
OrigC9 ==
    (Built /\ NonPosLabels # {} /\ PositiveConfig) =>
        /\ feat.status = "ok"
        /\ \A j \in 1..Len(feat.rows) : Val(feat.rows[j].value) > 0
        /\ \A l \in NonPosLabels :
             FullOutput \ ActualOutput =
                {t \in FullOutput : t = PosOf(l) \/ Consumes(t, PosOf(l))}

\* C9 amended: no exception, no output value <= 0, the non-positive row is
\* not in the output and costs the output that one row only: the rows on
\* either side of it are kept, and every log return and lag in the output is
\* taken between consecutive positive rows of the date-sorted series.
ThmC9 ==
    (Built /\ NonPosLabels # {}) =>
        /\ feat.status # "ok" => \E w \in windows : w < 0
        /\ feat.status = "ok" =>
             LET P == PosLabels
             IN  /\ \A j \in 1..Len(feat.rows) : Val(feat.rows[j].value) > 0
                 /\ \A j \in 1..Len(kept) : kept[j] \notin NonPosLabels
                 /\ PositiveConfig =>
                      Len(feat.rows) = Max(0, Len(P) - 1 - FirstValid)
                 /\ \A j \in 1..Len(kept) :
                      \E t \in 2..Len(P) :
                         /\ P[t] = kept[j]
                         /\ feat.rows[j].log_return = F(ReturnAt(P, t))
                         /\ \A k \in lags : k >= 1 =>
                              /\ t - k >= 2
                              /\ feat.rows[j].r_lag[k] = F(ReturnAt(P, t - k))

\* A zero or negative entry inside the series, with the row that follows it
\* by date in the output.
WitC9 ==
    /\ Built /\ feat.status = "ok" /\ PositiveConfig /\ lags # {}
    /\ \E l \in NonPosLabels :
         /\ PosOf(l) > 1
         /\ PosOf(l) < Len(order)
         /\ PosOf(l) + 1 \in ActualOutput

----------------------------------------------------------------------------
\* C10: with 1 among the windows (and no window that makes rolling raise),
\* r_roll_std_1 is NaN in every row and the table returned has zero rows.
ThmC10 ==
    (Built /\ 1 \in windows /\ ~(\E w \in windows : w < 0)) =>
        /\ feat.status = "ok"
        /\ feat.rows = <<>>
        /\ LET fr == Frame(Validated(df, order), lags, windows)
           IN  \A t \in 1..Len(fr) : IsNaN(fr[t].r_roll_std[1])

\* windows = [1] alone on a series of positive values long enough that every
\* other column is defined in some row.
WitC10 ==
    /\ Built /\ feat.status = "ok"
    /\ windows = {1} /\ lags = {}
    /\ Len(df) >= 4
    /\ \A l \in 1..Len(df) : IsPosLabel(l)
    /\ feat.rows = <<>>

====
